---- MODULE Spec2Model ----
(***************************************************************************)
(* A model of src/script.js: the Workout / Running / Cycling records, the  *)
(* App session controller and the collaborators it drives (localStorage,   *)
(* the Leaflet map, the geolocation request, the workout list in the DOM). *)
(*                                                                         *)
(* Numbers that the form can produce are records [cls, v]: cls is          *)
(* "finite", "NaN", "Infinity" or "-Infinity" and v is the value in tenths *)
(* (5.2 km is 52).  Coordinates are pairs of tenths of a degree.           *)
(* A record's date, description and isRunning fields are derived from the  *)
(* clock and the type; date is kept (JSON changes its class), the other    *)
(* two are not read by any handler that changes state and are left out,    *)
(* as are the CSS classes of the form and of its rows.                     *)
(***************************************************************************)
EXTENDS Integers, Sequences, FiniteSets, TLC

VARIABLES
    workouts,     \* App.#workouts: the in-memory store
    storage,      \* localStorage item "workouts"
    map,          \* App.#map: the Leaflet map, or undefined
    mapEvnt,      \* App.#mapEvnt: the last map click, or undefined
    markers,      \* markers added to the map, oldest first
    listEntries,  \* <li class="workout"> elements after the form, top first
    geo,          \* the geolocation request of this session
    last,         \* how the last event handler ended
    calc          \* inputs and result of one metric computation

vars == <<workouts, storage, map, mapEvnt, markers, listEntries, geo, last,
          calc>>

----------------------------------------------------------------------------
(* Bounds of the model *)

\* the store is not grown beyond this many records
MaxWorkouts == 2
\* a record's clicks counter is not driven beyond this
MaxClicks == 1
\* metric inputs run over 1 .. MaxCalcTenths tenths (and the spec's examples)
MaxCalcTenths == 40

----------------------------------------------------------------------------
(* Values *)

Num(v) == [cls |-> "finite", v |-> v]
NaN    == [cls |-> "NaN", v |-> 0]
PosInf == [cls |-> "Infinity", v |-> 0]
NegInf == [cls |-> "-Infinity", v |-> 0]

\* Number.isFinite(i)
IsFinite(i) == i.cls = "finite"

\* i > 0 on JavaScript numbers: NaN compares false with everything
GreaterThanZero(i) ==
    \/ i.cls = "Infinity"
    \/ i.cls = "finite" /\ i.v > 0

\* unary plus on the text of an input element
ToNumber(text) ==
    CASE text = ""          -> Num(0)
      [] text = "abc"       -> NaN
      [] text = "Infinity"  -> PosInf
      [] text = "-Infinity" -> NegInf
      [] text = "0"         -> Num(0)
      [] text = "5.2"       -> Num(52)
      [] text = "-5.2"      -> Num(-52)
      [] text = "24"        -> Num(240)
      [] text = "-24"       -> Num(-240)
      [] text = "178"       -> Num(1780)
      [] text = "-178"      -> Num(-1780)
      [] text = "-30"       -> Num(-300)

\* what the user may have typed into each field when the form is submitted
DistanceTexts  == {"", "abc", "Infinity", "-5.2", "5.2"}
DurationTexts  == {"", "abc", "-24", "24"}
CadenceTexts   == {"", "abc", "-178", "178"}
ElevationTexts == {"", "-Infinity", "-30"}

Types == {"running", "cycling"}

\* positions the geolocation request can report, and places a map click can hit
Positions == {<<387, -91>>}
LatLngs   == {<<388, -92>>, <<450, 100>>}

\* the value of an unset private field holding an object
UndefinedMap   == [defined |-> FALSE, center |-> <<0, 0>>, zoom |-> 0]
UndefinedEvent == [defined |-> FALSE, latlng |-> <<0, 0>>]

\* localStorage.getItem returns null for a key that was never set
NoItem == [present |-> FALSE, items |-> <<>>]

\* evnt.target.closest(".workout") found no element
NoWorkoutEl == -1

\* App.#mapZoomLevel
mapZoomLevel == 13

\* Date.now() at a submission, in clock ticks (a wall clock: it can repeat)
Times == {0, 1}

\* Math.trunc(Math.random() * 100_000), scaled to the ticks of the clock
Randoms == {0, 1}

\* ids a clicked element can carry in data-id: every id the generator can
\* produce and one it cannot
DataIds == 0 .. 3

----------------------------------------------------------------------------
(* Metric calculator *)

\* the text of a number printed with one decimal: "4.6" is DecimalString(46)
DecimalString(n) == [cls |-> "string", v |-> n]

\* (p / q).toFixed(1) for integers p >= 0, q > 0: the tenths nearest to the
\* quotient.  toFixed rounds the double it is given, so when the real quotient
\* lies exactly halfway between two tenths the digit depends on which side the
\* double fell: with exact operands and an exactly representable quotient
\* toFixed takes the larger tenth, otherwise either neighbour can come out.
ToFixed1(p, q, exact) ==
    LET scaled == 10 * p
        lower  == scaled \div q
        rest   == scaled % q
    IN  IF 2 * rest < q THEN {DecimalString(lower)}
        ELSE IF 2 * rest > q THEN {DecimalString(lower + 1)}
        ELSE IF exact THEN {DecimalString(lower + 1)}
        ELSE {DecimalString(lower), DecimalString(lower + 1)}

\* a value in tenths that is a whole number of halves is an exact double
IsExactDouble(tenths) == tenths % 5 = 0

\* an odd number of twentieths that is a whole number of quarters
IsDyadicTie(p, q) == (2 * ((10 * p) \div q) + 1) % 5 = 0

\* calcPace with its operands exchanged: distance over duration
calcPaceInverted(duration, distance) ==
    ToFixed1(distance.v, duration.v, FALSE)

\* Running.calcPace: (this.duration / this.distance).toFixed(1)
calcPace(duration, distance) ==
    ToFixed1(duration.v, distance.v,
             /\ IsExactDouble(duration.v)
             /\ IsExactDouble(distance.v)
             /\ IsDyadicTie(duration.v, distance.v))

\* Cycling.calcSpeed: (this.distance / (this.duration / 60)).toFixed(1);
\* duration / 60 is rounded before the second division
calcSpeed(distance, duration) ==
    ToFixed1(60 * distance.v, duration.v, FALSE)

----------------------------------------------------------------------------
(* Workout records *)

\* Workout.id: (Date.now() + Math.trunc(Math.random() * 100_000) + "").slice(-10)
\* the clock of the model is far from the 10-digit wrap of slice(-10)
NewId(time, rand) == time + rand

\* new Running(coords, distance, duration, cadence)
Running(coords, distance, duration, cadence, time, rand, pace) ==
    [proto    |-> "Running",
     date     |-> [cls |-> "Date", ms |-> time],
     id       |-> NewId(time, rand),
     clicks   |-> 0,
     coords   |-> coords,
     distance |-> distance,
     duration |-> duration,
     type     |-> "running",
     cadence  |-> cadence,
     pace     |-> pace]

\* new Cycling(coords, distance, duration, elevationGain)
Cycling(coords, distance, duration, elevationGain, time, rand, speed) ==
    [proto         |-> "Cycling",
     date          |-> [cls |-> "Date", ms |-> time],
     id            |-> NewId(time, rand),
     clicks        |-> 0,
     coords        |-> coords,
     distance      |-> distance,
     duration      |-> duration,
     type          |-> "cycling",
     elevationGain |-> elevationGain,
     speed         |-> speed]

\* the object has Workout.prototype on its chain, so workout.click exists
HasClick(workout) == workout.proto \in {"Running", "Cycling"}

\* Workout.click
click(workout) == [workout EXCEPT !.clicks = @ + 1]

----------------------------------------------------------------------------
(* JSON and localStorage *)

\* JSON.stringify of one workout: own enumerable fields only, and
\* Date.prototype.toJSON turns the date into its ISO string
ToJSON(workout) ==
    [f \in DOMAIN workout \ {"proto"} |->
        IF f = "date" THEN [cls |-> "string", ms |-> workout.date.ms]
        ELSE workout[f]]

\* JSON.parse of one element: a plain object
FromJSON(json) ==
    [f \in DOMAIN json \cup {"proto"} |->
        IF f = "proto" THEN "Object" ELSE json[f]]

\* JSON.stringify(this.#workouts), as stored by setItem
Stringify(ws) ==
    [present |-> TRUE, items |-> [i \in 1 .. Len(ws) |-> ToJSON(ws[i])]]

\* JSON.parse(localStorage.getItem("workouts")) when the item is present
Parse(item) == [i \in 1 .. Len(item.items) |-> FromJSON(item.items[i])]

----------------------------------------------------------------------------
(* Rendering *)

\* the <li> built by _renderWorkout
ListEntry(workout) ==
    [dataId   |-> workout.id,
     type     |-> workout.type,
     distance |-> workout.distance,
     duration |-> workout.duration,
     metric   |-> IF workout.type = "running" THEN workout.pace
                  ELSE workout.speed,
     extra    |-> IF workout.type = "running" THEN workout.cadence
                  ELSE workout.elevationGain]

\* _renderWorkout: form.insertAdjacentHTML("afterend", html)
RenderWorkout(entries, workout) == <<ListEntry(workout)>> \o entries

RECURSIVE RenderAll(_, _)
\* this.#workouts.forEach((workout) => this._renderWorkout(workout))
RenderAll(entries, ws) ==
    IF ws = <<>> THEN entries
    ELSE RenderAll(RenderWorkout(entries, Head(ws)), Tail(ws))

\* the marker and popup built by _renderWorkoutMarker
Marker(workout) == [coords |-> workout.coords, className |-> workout.type]

\* this.#map.setView(coords, this.#mapZoomLevel)
SetView(m, coords) == [m EXCEPT !.center = coords, !.zoom = mapZoomLevel]

\* this.#workouts.find((workout) => workout.id === id): position of the
\* first match, 0 for undefined
Find(ws, id) ==
    IF \E i \in 1 .. Len(ws) : ws[i].id = id
    THEN CHOOSE i \in 1 .. Len(ws) :
            /\ ws[i].id = id
            /\ \A j \in 1 .. (i - 1) : ws[j].id # id
    ELSE 0

----------------------------------------------------------------------------
(* How a handler ended *)

Returned(handler) == [handler |-> handler, threw |-> FALSE, alert |-> ""]

Alerted(handler, message) ==
    [handler |-> handler, threw |-> FALSE, alert |-> message]

\* an uncaught TypeError left the handler
Threw(handler) == [handler |-> handler, threw |-> TRUE, alert |-> ""]

----------------------------------------------------------------------------
(* The session: new App() *)

NoCalc == [state |-> "idle", type |-> "running", distance |-> Num(0),
           duration |-> Num(0), result |-> DecimalString(0)]

\* _getLocalStorage: `if (!data) return`, else adopt the parsed array as the
\* store and render a list entry for each element
getLocalStorage ==
    /\ workouts'    = IF storage.present THEN Parse(storage) ELSE <<>>
    /\ listEntries' = IF storage.present
                      THEN RenderAll(<<>>, Parse(storage)) ELSE <<>>

\* the App constructor on a freshly loaded page: a geolocation request is
\* started when navigator.geolocation exists, then the store is loaded
Constructor ==
    /\ geo' \in {"pending", "unsupported"}
    /\ getLocalStorage
    /\ map'     = UndefinedMap
    /\ mapEvnt' = UndefinedEvent
    /\ markers' = <<>>
    /\ last'    = Returned("constructor")

\* first visit: nothing stored yet
Init ==
    /\ storage     = NoItem
    /\ workouts    = <<>>
    /\ listEntries = <<>>
    /\ geo \in {"pending", "unsupported"}
    /\ map         = UndefinedMap
    /\ mapEvnt     = UndefinedEvent
    /\ markers     = <<>>
    /\ last        = Returned("constructor")
    /\ calc        = NoCalc

\* the user reloads the page: the script runs again against the same storage
Reload ==
    /\ Constructor
    /\ UNCHANGED <<storage, calc>>

\* App.reset: localStorage.removeItem("workouts"); location.reload()
reset ==
    /\ storage' = NoItem
    /\ geo' \in {"pending", "unsupported"}
    /\ workouts'    = <<>>
    /\ listEntries' = <<>>
    /\ map'     = UndefinedMap
    /\ mapEvnt' = UndefinedEvent
    /\ markers' = <<>>
    /\ last'    = Returned("constructor")
    /\ UNCHANGED calc

----------------------------------------------------------------------------
(* Geolocation and the map *)

\* _loadMap without its replay of the stored workouts
RenderNoMarkers(state, ws) == state

RECURSIVE RenderMarkers(_, _)
\* this.#workouts.forEach((workout) => this._renderWorkoutMarker(workout)):
\* each call adds a marker and moves the view to the workout
RenderMarkers(state, ws) ==
    IF ws = <<>> THEN state
    ELSE RenderMarkers(
            [map     |-> SetView(state.map, Head(ws).coords),
             markers |-> Append(state.markers, Marker(Head(ws)))],
            Tail(ws))

\* _loadMap, the success callback of getCurrentPosition
loadMap ==
    /\ geo = "pending"
    /\ \E position \in Positions :
        LET created  == [defined |-> TRUE, center |-> position,
                         zoom |-> mapZoomLevel]
            rendered == RenderMarkers([map |-> created, markers |-> markers],
                                      workouts)
        IN  /\ map'     = rendered.map
            /\ markers' = rendered.markers
    /\ geo'  = "loaded"
    /\ last' = Returned("_loadMap")
    /\ UNCHANGED <<workouts, storage, mapEvnt, listEntries, calc>>

\* the error callback of getCurrentPosition
positionError ==
    /\ geo = "pending"
    /\ geo'  = "failed"
    /\ last' = Alerted("positionError", "Could not get your location")
    /\ UNCHANGED <<workouts, storage, map, mapEvnt, markers, listEntries,
                   calc>>

\* _showForm, the map's click handler (registered by _loadMap)
showForm ==
    /\ map.defined
    /\ \E latlng \in LatLngs :
        mapEvnt' = [defined |-> TRUE, latlng |-> latlng]
    /\ last' = Returned("_showForm")
    /\ UNCHANGED <<workouts, storage, map, markers, listEntries, geo, calc>>

----------------------------------------------------------------------------
(* Activation: a click inside the workout list *)

\* _moveToPopup for a click whose closest .workout element is `target`
\* (NoWorkoutEl, or the data-id of the element)
moveToPopup(target) ==
    LET found == Find(workouts, target)
    IN
    /\ \/ \* if (!workoutEl) return
          /\ target = NoWorkoutEl
          /\ last' = Returned("_moveToPopup")
          /\ UNCHANGED <<workouts, map>>
       \/ \* this.#map is undefined: this.#map.setView throws
          /\ target # NoWorkoutEl
          /\ ~map.defined
          /\ last' = Threw("_moveToPopup")
          /\ UNCHANGED <<workouts, map>>
       \/ \* find returned undefined: workout.coords throws
          /\ target # NoWorkoutEl
          /\ map.defined
          /\ found = 0
          /\ last' = Threw("_moveToPopup")
          /\ UNCHANGED <<workouts, map>>
       \/ \* the view moves, then workout.click is not a function
          /\ target # NoWorkoutEl
          /\ map.defined
          /\ found # 0
          /\ ~HasClick(workouts[found])
          /\ map' = SetView(map, workouts[found].coords)
          /\ last' = Threw("_moveToPopup")
          /\ UNCHANGED workouts
       \/ \* the view moves and the click is counted
          /\ target # NoWorkoutEl
          /\ map.defined
          /\ found # 0
          /\ HasClick(workouts[found])
          /\ workouts[found].clicks < MaxClicks
          /\ map' = SetView(map, workouts[found].coords)
          /\ workouts' = [workouts EXCEPT ![found] = click(@)]
          /\ last' = Returned("_moveToPopup")
    /\ UNCHANGED <<storage, mapEvnt, markers, listEntries, geo, calc>>

listClick == \E target \in DataIds \cup {NoWorkoutEl} : moveToPopup(target)

----------------------------------------------------------------------------
(* Form submission *)

\* const validInputs = (...inputs) => inputs.every((i) => Number.isFinite(i))
validInputs(inputs) == \A i \in 1 .. Len(inputs) : IsFinite(inputs[i])

\* const allPositive = (...inputs) => inputs.every((i) => i > 0)
allPositive(inputs) == \A i \in 1 .. Len(inputs) : GreaterThanZero(inputs[i])

\* the guard of the running branch of _newWorkout
AcceptsRunning(distance, duration, cadence) ==
    ~ (\/ ~validInputs(<<distance, duration, cadence>>)
       \/ ~allPositive(<<distance, duration, cadence>>))

\* the guard of the cycling branch of _newWorkout
AcceptsCycling(distance, duration, elevation) ==
    ~ (\/ ~validInputs(<<distance, duration, elevation>>)
       \/ ~allPositive(<<distance, duration>>))

Accepts(type, distance, duration, extra) ==
    IF type = "running" THEN AcceptsRunning(distance, duration, extra)
    ELSE AcceptsCycling(distance, duration, extra)

\* _setLocalStorage called before the push: the new record is not written
setLocalStorageBeforePush(ws) ==
    storage' = Stringify(SubSeq(ws, 1, Len(ws) - 1))

\* _setLocalStorage
setLocalStorage(ws) == storage' = Stringify(ws)

\* lines 253-264 of _newWorkout: push, render, (hide the form,) persist
AddWorkout(created) ==
    /\ workouts'    = Append(workouts, created)
    /\ listEntries' = RenderWorkout(listEntries, created)
    /\ markers'     = Append(markers, Marker(created))
    /\ map'         = SetView(map, created.coords)
    /\ setLocalStorage(Append(workouts, created))
    /\ last'        = Returned("_newWorkout")

\* _newWorkout with the given type and field texts
newWorkout(type, distanceText, durationText, extraText) ==
    LET distance == ToNumber(distanceText)
        duration == ToNumber(durationText)
        extra    == ToNumber(extraText)
    IN
    /\ \/ \* this.#mapEvnt is undefined: reading .latlng throws
          /\ ~mapEvnt.defined
          /\ last' = Threw("_newWorkout")
          /\ UNCHANGED <<workouts, storage, map, markers, listEntries>>
       \/ \* return alert("Inputs have to be positive numbers")
          /\ mapEvnt.defined
          /\ ~Accepts(type, distance, duration, extra)
          /\ last' = Alerted("_newWorkout",
                           "Inputs have to be positive numbers")
          /\ UNCHANGED <<workouts, storage, map, markers, listEntries>>
       \/ /\ mapEvnt.defined
          /\ Accepts(type, distance, duration, extra)
          /\ type = "running"
          /\ Len(workouts) < MaxWorkouts
          /\ \E time \in Times, rand \in Randoms :
               \E pace \in calcPace(duration, distance) :
                  AddWorkout(Running(mapEvnt.latlng, distance, duration,
                                     extra, time, rand, pace))
       \/ /\ mapEvnt.defined
          /\ Accepts(type, distance, duration, extra)
          /\ type = "cycling"
          /\ Len(workouts) < MaxWorkouts
          /\ \E time \in Times, rand \in Randoms :
               \E speed \in calcSpeed(distance, duration) :
                  AddWorkout(Cycling(mapEvnt.latlng, distance, duration,
                                     extra, time, rand, speed))
    /\ UNCHANGED <<mapEvnt, geo, calc>>

\* the texts a submission can carry in the field of the chosen type
ExtraTexts(type) == IF type = "running" THEN CadenceTexts ELSE ElevationTexts

\* a text the field of the chosen type accepts
GoodExtra(type) == IF type = "running" THEN "178" ELSE "-30"

\* the submissions tried: every text of one field beside good texts in the
\* other two, for each type
Submissions ==
    UNION {
        {<<type, d, "24", GoodExtra(type)>> : d \in DistanceTexts}
        \cup {<<type, "5.2", u, GoodExtra(type)>> : u \in DurationTexts}
        \cup {<<type, "5.2", "24", x>> : x \in ExtraTexts(type)}
        : type \in Types }

submit ==
    \E s \in Submissions : newWorkout(s[1], s[2], s[3], s[4])

----------------------------------------------------------------------------
(* Specification of the application *)

Next ==
    \/ Reload
    \/ reset
    \/ loadMap
    \/ positionError
    \/ showForm
    \/ listClick
    \/ submit

Spec == Init /\ [][Next]_vars

----------------------------------------------------------------------------
(* Specification of the metric calculator: one record is constructed from  *)
(* each validated pair of distance and duration                            *)

CalcDistances == (1 .. MaxCalcTenths) \cup {52, 200}
CalcDurations == (1 .. MaxCalcTenths) \cup {240, 600}

InitCalc ==
    /\ storage     = NoItem
    /\ workouts    = <<>>
    /\ listEntries = <<>>
    /\ geo         = "pending"
    /\ map         = UndefinedMap
    /\ mapEvnt     = UndefinedEvent
    /\ markers     = <<>>
    /\ last        = Returned("constructor")
    /\ \E type \in Types, d \in CalcDistances, u \in CalcDurations :
         calc = [state |-> "input", type |-> type, distance |-> Num(d),
                 duration |-> Num(u), result |-> DecimalString(0)]

constructRunning ==
    /\ calc.state = "input"
    /\ calc.type = "running"
    /\ \E pace \in calcPace(calc.duration, calc.distance) :
         LET created == Running(<<0, 0>>, calc.distance, calc.duration,
                                Num(1780), 0, 0, pace)
         IN  calc' = [calc EXCEPT !.state = "done", !.result = created.pace]
    /\ UNCHANGED <<workouts, storage, map, mapEvnt, markers, listEntries,
                   geo, last>>

constructCycling ==
    /\ calc.state = "input"
    /\ calc.type = "cycling"
    /\ \E speed \in calcSpeed(calc.distance, calc.duration) :
         LET created == Cycling(<<0, 0>>, calc.distance, calc.duration,
                                Num(0), 0, 0, speed)
         IN  calc' = [calc EXCEPT !.state = "done", !.result = created.speed]
    /\ UNCHANGED <<workouts, storage, map, mapEvnt, markers, listEntries,
                   geo, last>>

NextCalc ==
    \/ constructRunning
    \/ constructCycling

SpecCalc == InitCalc /\ [][NextCalc]_vars

----------------------------------------------------------------------------
(* Properties *)

Abs(n) == IF n < 0 THEN -n ELSE n

\* the positions of the store whose record carries this id
Holders(ws, id) == {i \in 1 .. Len(ws) : ws[i].id = id}

\* the fields a reload is to preserve, for a record of either kind
Preserved(w) ==
    <<w.id, w.type, w.coords, w.distance, w.duration,
      IF w.type = "running" THEN w.cadence ELSE w.elevationGain,
      IF w.type = "running" THEN w.pace ELSE w.speed>>

PreservedAll(ws) == [i \in 1 .. Len(ws) |-> Preserved(ws[i])]

\* a valid submission, as the specification words it (section 7)
ValidSubmission(s) ==
    LET distance == ToNumber(s[2])
        duration == ToNumber(s[3])
        extra    == ToNumber(s[4])
    IN  /\ distance.cls = "finite" /\ distance.v > 0
        /\ duration.cls = "finite" /\ duration.v > 0
        /\ extra.cls = "finite"
        /\ (s[1] = "running" => extra.v > 0)

\* C1: a form submission creates a record if and only if distance and
\* duration are finite and positive and the kind-specific value is finite
\* (and positive for cadence); any other submission leaves the store and the
\* persisted value unchanged.
C1_SubmissionCreatesIffValid ==
    [][\A s \in Submissions :
         newWorkout(s[1], s[2], s[3], s[4]) =>
            /\ ValidSubmission(s) <=> Len(workouts') = Len(workouts) + 1
            /\ ~ValidSubmission(s) => UNCHANGED <<workouts, storage>>]_vars

\* C2: a reload after any adds restores exactly the records of the store, in
\* the same order, with the same id, kind, coordinates, distance, duration,
\* kind-specific field and derived metric.
C2_ReloadPreservesRecords ==
    [][Reload => PreservedAll(workouts') = PreservedAll(workouts)]_vars

\* two different records, added in one session, are back in order after a
\* reload: both are plain objects and no map exists yet
C2_Witness ==
    /\ Len(workouts) = 2
    /\ \A i \in 1 .. 2 : ~HasClick(workouts[i])
    /\ workouts[1].type = "running"
    /\ workouts[2].type = "cycling"
    /\ workouts[1].id # workouts[2].id
    /\ ~map.defined

\* C3: no two records of the store have the same id.
C3_NoDuplicateIds ==
    \A i, j \in 1 .. Len(workouts) :
        i # j => workouts[i].id # workouts[j].id

\* C4: between events, either nothing is persisted and the store is empty,
\* or the persisted value is the serialization of the store, clicks included.
C4_StoreIsSaved ==
    \/ ~storage.present /\ workouts = <<>>
    \/ storage.present /\ storage = Stringify(workouts)

\* C5: activating an id that is not in the store raises no exception and
\* changes neither the store, the map view nor the persisted data.
C5_AbsentIdIsNoOp ==
    [][\A target \in DataIds :
         (moveToPopup(target) /\ Holders(workouts, target) = {}) =>
            /\ ~last'.threw
            /\ UNCHANGED <<workouts, map, storage>>]_vars

\* the data-ids of the list entries on the page
EntryIds == {listEntries[k].dataId : k \in 1 .. Len(listEntries)}

\* C6: once geolocation has failed, neither a click on a list entry nor a
\* form submission ends in an unhandled exception.
C6_NoCrashAfterGeolocationFailure ==
    [][(/\ geo = "failed"
        /\ \/ \E target \in EntryIds : moveToPopup(target)
           \/ \E s \in Submissions : newWorkout(s[1], s[2], s[3], s[4]))
       => ~last'.threw]_vars

\* C7: the derived metric is the quotient (duration / distance for running,
\* distance / (duration / 60) for cycling) rounded to one decimal place: it
\* is a text with one decimal no further than 0.05 from the quotient, "4.6"
\* for 5.2 km in 24 min and "20.0" for 20 km in 60 min.
C7_MetricIsRounded ==
    calc.state = "done" =>
        LET r == calc.result.v
            d == calc.distance.v
            u == calc.duration.v
        IN  /\ calc.result.cls = "string"
            /\ calc.type = "running" =>
                  /\ 2 * Abs(r * d - 10 * u) <= d
                  /\ (d = 52 /\ u = 240) => r = 46
            /\ calc.type = "cycling" =>
                  /\ 2 * Abs(r * u - 600 * d) <= u
                  /\ (d = 200 /\ u = 600) => r = 200

\* the running example has been computed: 24 / 5.2 is
\* 4.615..., printed as "4.6"
C7_Witness ==
    /\ calc.state = "done"
    /\ calc.type = "running"
    /\ calc.distance = Num(52)
    /\ calc.duration = Num(240)
    /\ calc.result = DecimalString(46)

\* C8: a record is created with clicks = 0, and activating a record created
\* in this session, with the map initialised, adds one to that record's
\* clicks and changes nothing else in the store.
C8_ActivationCountsOnce ==
    [][/\ \A s \in Submissions :
            (/\ newWorkout(s[1], s[2], s[3], s[4])
             /\ Len(workouts') = Len(workouts) + 1)
            => workouts'[Len(workouts')].clicks = 0
       /\ \A target \in DataIds : \A i \in Holders(workouts, target) :
            (/\ moveToPopup(target)
             /\ map.defined
             /\ HasClick(workouts[i]))
            => workouts' = [workouts EXCEPT ![i].clicks = @ + 1]]_vars

\* how many positions of a sequence satisfy a test
Count(seq, Test(_)) == Cardinality({k \in 1 .. Len(seq) : Test(seq[k])})

\* C9: every record of the store has exactly one list entry and, once the
\* map exists, exactly one marker; there is no entry or marker of anything
\* else, and no marker before the map exists.
C9_RenderingFollowsStore ==
    /\ Len(listEntries) = Len(workouts)
    /\ \A id \in DataIds, type \in Types :
         LET IsEntry(e)  == e.dataId = id /\ e.type = type
             IsRecord(w) == w.id = id /\ w.type = type
         IN  Count(listEntries, IsEntry) = Count(workouts, IsRecord)
    /\ ~map.defined => markers = <<>>
    /\ map.defined =>
         /\ Len(markers) = Len(workouts)
         /\ \A coords \in LatLngs, type \in Types :
              LET IsMarker(m) == m.coords = coords /\ m.className = type
                  IsRecord(w) == w.coords = coords /\ w.type = type
              IN  Count(markers, IsMarker) = Count(workouts, IsRecord)

\* a restored record and one added after the map was loaded, at different
\* places, each with its entry and its marker
C9_Witness ==
    /\ map.defined
    /\ Len(workouts) = 2
    /\ ~HasClick(workouts[1])
    /\ HasClick(workouts[2])
    /\ workouts[1].coords # workouts[2].coords
    /\ Len(markers) = 2
    /\ Len(listEntries) = 2

\* C10: with the map initialised, activating a record of the store ends
\* without an exception, for a record created in this session and for one
\* restored from storage.
C10_ActivationNeverThrows ==
    [][\A target \in DataIds :
         (/\ moveToPopup(target)
          /\ map.defined
          /\ Holders(workouts, target) # {})
         => ~last'.threw]_vars

====
